---- MODULE Spec2Model ----
(***************************************************************************)
(* SpaceX Launch Records Dashboard (gf-ibm-ds-dash.py).                    *)
(*                                                                         *)
(* The script reads spacex_launch_dash.csv once, derives min/max payload   *)
(* and the launch sites, builds a layout with a dropdown and a range       *)
(* slider, and registers two callbacks: get_pie_chart(entered_site) and    *)
(* get_scatter_chart(entered_site, entered_payload).                       *)
(*                                                                         *)
(* Two specifications:                                                     *)
(*   Spec      the dashboard as the browser drives it: start-up, page      *)
(*             load, dropdown and slider interactions, each followed by    *)
(*             the callbacks Dash fires for the changed input;             *)
(*   SpecCall  the two callbacks invoked directly with arbitrary inputs    *)
(*             (in-contract and out-of-contract).                          *)
(***************************************************************************)
EXTENDS Integers, Sequences, FiniteSets, TLC

VARIABLES
    csv,                            \* the file spacex_launch_dash.csv
    pc,                             \* "start" | "failed" | "running" | "rendered"
    error,                          \* exception that ended start-up, "" if none
    spacex_df,                      \* module global: the loaded data frame
    min_payload,                    \* module global
    max_payload,                    \* module global
    launch_sites,                   \* module global
    site_dropdown,                  \* value of dcc.Dropdown 'site-dropdown'
    payload_slider,                 \* value of dcc.RangeSlider 'payload-slider'
    slider_changed,                 \* the user moved the slider since the page was loaded
    success_pie_chart,              \* last callback result for dcc.Graph 'success-pie-chart'
    success_payload_scatter_chart,  \* last callback result for 'success-payload-scatter-chart'
    returned                        \* what the last direct call of a callback returned

vars == <<csv, pc, error, spacex_df, min_payload, max_payload, launch_sites,
          site_dropdown, payload_slider, slider_changed,
          success_pie_chart, success_payload_scatter_chart, returned>>

----------------------------------------------------------------------------
(* Bounds of the model and the universe the input file is drawn from.      *)

MaxRows == 2

SITE == "Launch Site"
PAYLOAD == "Payload Mass (kg)"
CLASS == "class"
BOOSTER == "Booster Version Category"
Cols == {SITE, PAYLOAD, CLASS, BOOSTER}

SiteNames == {"CCAFS LC-40", "KSC LC-39A"}
UnknownSite == "VAFB SLC-4E"
PayloadValues == {0, 9600}
BoosterNames == {"v1.1", "FT"}

\* Python's None (the value of a cleared dropdown); str(None) is 'None'.
None == "<None>"
Str(x) == IF x = None THEN "None" ELSE x

Row(s, p, c, b) == (SITE :> s) @@ (PAYLOAD :> p) @@ (CLASS :> c) @@ (BOOSTER :> b)
Records == {Row(s, p, c, b) : s \in SiteNames, p \in PayloadValues,
                              c \in {0, 1}, b \in BoosterNames}
\* The rows the browser-driven specification draws from: every site and payload.
UIRecords == {r \in Records : r[CLASS] = 1 /\ r[BOOSTER] = "FT"}

Tables(Rs) == UNION {[1..n -> Rs] : n \in 1..MaxRows}
ColumnSets == {Cols} \cup {Cols \ {c} : c \in Cols}

MissingFile == [exists |-> FALSE, columns |-> {}, rows |-> <<>>]
CsvFile(cols, t) ==
    [exists |-> TRUE, columns |-> cols,
     rows |-> [i \in 1..Len(t) |-> [c \in cols |-> t[i][c]]]]

----------------------------------------------------------------------------
(* Python / pandas helpers.                                                *)

Raised(e) == [raised |-> e, type |-> "none"]
NoFigure == [raised |-> "", type |-> "none"]
NoCall == [fn |-> "", args |-> <<>>, result |-> NoFigure]
NoFrame == [columns |-> {}, rows |-> <<>>]

\* px.colors.qualitative.Plotly
Plotly == <<"#636EFA", "#EF553B", "#00CC96", "#AB63FA", "#FFA15A",
            "#19D3F3", "#FF6692", "#B6E880", "#FF97FF", "#FECB52">>

\* The elements of a set of integers in increasing order.
Ascending(S) ==
    [k \in 1..Cardinality(S) |-> CHOOSE i \in S : Cardinality({j \in S : j < i}) = k - 1]

\* Series.unique(): the distinct values in order of first appearance.
Unique(s) ==
    LET first == {i \in DOMAIN s : \A j \in 1..(i - 1) : s[j] # s[i]}
        idx == Ascending(first)
    IN  [k \in DOMAIN idx |-> s[idx[k]]]

\* list.index(x), 0-based as enumerate() counts.
IndexOf(s, x) == (CHOOSE i \in DOMAIN s : s[i] = x) - 1

Column(df, c) == [i \in DOMAIN df.rows |-> df.rows[i][c]]

SeqMax(s) == CHOOSE x \in {s[i] : i \in DOMAIN s} : \A i \in DOMAIN s : s[i] <= x
SeqMin(s) == CHOOSE x \in {s[i] : i \in DOMAIN s} : \A i \in DOMAIN s : x <= s[i]

\* pd.read_csv
read_csv(file) ==
    IF ~file.exists THEN Raised("FileNotFoundError")
    ELSE [raised |-> "", type |-> "frame",
          frame |-> [columns |-> file.columns, rows |-> file.rows]]

----------------------------------------------------------------------------
(* Module level, lines 10-15: the dataset load and the derived summaries.  *)

LoadFailed(e, df) ==
    [raised |-> e, spacex_df |-> df, max_payload |-> 0, min_payload |-> 0,
     launch_sites |-> {}]

\* Every column is checked when the file is read (not what the script does).
LoadData_ValidateColumns(file) ==
    LET r == read_csv(file)
    IN  IF r.raised # "" THEN LoadFailed(r.raised, NoFrame)
        ELSE IF ~(Cols \subseteq r.frame.columns) THEN LoadFailed("KeyError", r.frame)
        ELSE [raised |-> "", spacex_df |-> r.frame,
              max_payload |-> SeqMax(Column(r.frame, PAYLOAD)),
              min_payload |-> SeqMin(Column(r.frame, PAYLOAD)),
              launch_sites |-> {r.frame.rows[i][SITE] : i \in DOMAIN r.frame.rows}]

\* spacex_df = pd.read_csv(...); max_payload = ...max(); min_payload = ...min();
\* launch_sites = sorted(spacex_df['Launch Site'].unique().tolist()).
\* The order of launch_sites (the order of the dropdown's options) is not modelled.
LoadData(file) ==
    LET r == read_csv(file)
    IN  IF r.raised # "" THEN LoadFailed(r.raised, NoFrame)
        ELSE IF PAYLOAD \notin r.frame.columns THEN LoadFailed("KeyError", r.frame)
        ELSE IF SITE \notin r.frame.columns THEN LoadFailed("KeyError", r.frame)
        ELSE [raised |-> "", spacex_df |-> r.frame,
              max_payload |-> SeqMax(Column(r.frame, PAYLOAD)),
              min_payload |-> SeqMin(Column(r.frame, PAYLOAD)),
              launch_sites |-> {r.frame.rows[i][SITE] : i \in DOMAIN r.frame.rows}]

\* options = [{'label': 'All Sites', 'value': 'ALL'}] + [... for x in launch_sites]
OptionValues(sites) == {"ALL"} \cup sites

----------------------------------------------------------------------------
(* The layout's controls, lines 26-30 and 48-51.                           *)

SliderMin == 0
SliderMax == 10000
SliderStep == 1000

DropdownDefault == "ALL"
SliderDefault(lo, hi) == <<lo, hi>>

\* A finer step than the layout's.
SliderPositions_FineStep == {p \in SliderMin..SliderMax : (p - SliderMin) % 200 = 0}

\* The positions a handle of the slider can be dragged to: min, min + step, ... <= max.
SliderPositions == {p \in SliderMin..SliderMax : (p - SliderMin) % SliderStep = 0}

----------------------------------------------------------------------------
(* get_pie_chart, lines 62-89.                                             *)

PieFigure(title, labels, values, colors, sorted) ==
    [raised |-> "", type |-> "pie", title |-> title, labels |-> labels,
     values |-> values, colors |-> colors, sort |-> sorted]

\* Every row counts one, whatever its class.
PieAllSites_CountRows(df) ==
    PieFigure(<<"Total Success Launches By Site">>,
              Column(df, SITE), [i \in DOMAIN df.rows |-> 1], <<>>, TRUE)

\* px.pie(spacex_df, values='class', names='Launch Site', title=...): one label and
\* one value per row; the pie adds up the values of equal labels (see SectorValue).
PieAllSites(df) ==
    PieFigure(<<"Total Success Launches By Site">>,
              Column(df, SITE), Column(df, CLASS), <<>>, TRUE)

\* Every row selected.
SiteRows_NoFilter(df, entered_site) == Ascending(DOMAIN df.rows)

\* spacex_df[spacex_df['Launch Site'] == entered_site]: the index labels kept.
SiteRows(df, entered_site) ==
    Ascending({i \in DOMAIN df.rows : df.rows[i][SITE] = entered_site})

\* Series.value_counts(): the distinct values with their counts, the most frequent
\* first (equal counts in order of first appearance).
value_counts(s) ==
    LET u == Unique(s)
        Count(v) == Cardinality({i \in DOMAIN s : s[i] = v})
        Before(a, b) == \/ Count(u[a]) > Count(u[b])
                        \/ Count(u[a]) = Count(u[b]) /\ a < b
        Rank(a) == 1 + Cardinality({b \in DOMAIN u : Before(b, a)})
    IN  [k \in DOMAIN u |->
            LET a == CHOOSE a \in DOMAIN u : Rank(a) = k
            IN  [class |-> u[a], count |-> Count(u[a])]]

\* The labels the other way round.
ClassLabel_Swapped(c) == IF c = 0 THEN "Success" ELSE IF c = 1 THEN "Failure" ELSE "nan"

\* filtered_df['class'].map({0: 'Failure', 1: 'Success'})
ClassLabel(c) == IF c = 0 THEN "Failure" ELSE IF c = 1 THEN "Success" ELSE "nan"

\* color_map = {'Failure': Plotly[1], 'Success': Plotly[0]}
PieColorMap == [Failure |-> Plotly[2], Success |-> Plotly[1]]

\* category_orders={'class': ['Success', 'Failure']}
PieCategoryOrder == <<"Success", "Failure">>

\* px.pie's ordering of the rows by category_orders[names]: the listed categories
\* first, then the others in order of appearance, each only if present.
OrderByCategory(labels, order) ==
    LET all == Unique(order \o labels)
        present == {labels[i] : i \in DOMAIN labels}
        kept == SelectSeq(all, LAMBDA x : x \in present)
    IN  [k \in DOMAIN kept |-> CHOOSE i \in DOMAIN labels : labels[i] = kept[k]]

\* Without color_discrete_map: the palette in the order of the rows.
SectorColors_BySequence(labels) == [i \in DOMAIN labels |-> Plotly[i]]

\* color='class', color_discrete_map=color_map
SectorColors(labels) ==
    [i \in DOMAIN labels |->
        IF labels[i] \in DOMAIN PieColorMap THEN PieColorMap[labels[i]]
        ELSE Plotly[i]]

\* process_dataframe_pie, applied because category_orders names the names column.
SitePieOrder(labels) == OrderByCategory(labels, PieCategoryOrder)

get_pie_chart(df, entered_site) ==
    IF entered_site = "ALL"
    THEN IF {CLASS, SITE} \subseteq df.columns THEN PieAllSites(df)
         ELSE Raised("ValueError")
    ELSE IF ~({CLASS, SITE} \subseteq df.columns) THEN Raised("KeyError")
    ELSE
        LET rows == SiteRows(df, entered_site)
            counts == value_counts([k \in DOMAIN rows |-> df.rows[rows[k]][CLASS]])
            labels == [k \in DOMAIN counts |-> ClassLabel(counts[k].class)]
            order == SitePieOrder(labels)
            names == [k \in DOMAIN order |-> labels[order[k]]]
        IN  PieFigure(<<"Total Success Launches for Site ", Str(entered_site)>>,
                      names,
                      [k \in DOMAIN order |-> counts[order[k]].count],
                      SectorColors(names),
                      FALSE)

\* What the pie shows: one sector per distinct label, its value the sum of the
\* values given for that label.
SectorLabels(fig) == Unique(fig.labels)
RECURSIVE SumWhere(_, _, _, _)
SumWhere(labels, values, l, n) ==
    IF n = 0 THEN 0
    ELSE SumWhere(labels, values, l, n - 1) + (IF labels[n] = l THEN values[n] ELSE 0)
SectorValue(fig, l) == SumWhere(fig.labels, fig.values, l, Len(fig.labels))

----------------------------------------------------------------------------
(* get_scatter_chart, lines 95-128.                                        *)

\* The lower bound exclusive.
PayloadRows_ExclusiveLow(df, lo, hi) ==
    Ascending({i \in DOMAIN df.rows : df.rows[i][PAYLOAD] > lo /\ df.rows[i][PAYLOAD] <= hi})

\* Either comparison enough.
PayloadRows_Either(df, lo, hi) ==
    Ascending({i \in DOMAIN df.rows : df.rows[i][PAYLOAD] >= lo \/ df.rows[i][PAYLOAD] <= hi})

\* spacex_df[(payloads >= entered_payload_min) & (payloads <= entered_payload_max)]
PayloadRows(df, lo, hi) ==
    Ascending({i \in DOMAIN df.rows : df.rows[i][PAYLOAD] >= lo /\ df.rows[i][PAYLOAD] <= hi})

\* filtered_df[filtered_df['Launch Site'] == entered_site]
FilterSite(df, rows, entered_site) ==
    SelectSeq(rows, LAMBDA i : df.rows[i][SITE] = entered_site)

\* The colours taken from the rows that are left after filtering.
ColorMapRows_Filtered(df, filtered) == filtered

\* boosters = spacex_df['Booster Version Category'].unique().tolist(): the rows the
\* colour map is built from are those of the whole frame, not of filtered_df.
ColorMapRows(df, filtered) == Ascending(DOMAIN df.rows)

\* for i, x in enumerate(boosters): color_map[x] = px.colors.qualitative.Plotly[i]
BoosterColor(boosters, b) == Plotly[IndexOf(boosters, b) + 1]

ScatterTitle(entered_site) ==
    IF entered_site = "ALL"
    THEN <<"Correlation between Payload and Success for ", "all Sites">>
    ELSE <<"Correlation between Payload and Success for ", "site ", Str(entered_site)>>

get_scatter_chart(df, entered_site, entered_payload) ==
    IF PAYLOAD \notin df.columns THEN Raised("KeyError")
    ELSE IF entered_site # "ALL" /\ SITE \notin df.columns THEN Raised("KeyError")
    ELSE IF BOOSTER \notin df.columns THEN Raised("KeyError")
    ELSE
        LET entered_payload_min == entered_payload[1]
            entered_payload_max == entered_payload[Len(entered_payload)]
            in_range == PayloadRows(df, entered_payload_min, entered_payload_max)
            filtered == IF entered_site # "ALL"
                        THEN FilterSite(df, in_range, entered_site)
                        ELSE in_range
            from == ColorMapRows(df, filtered)
            boosters == Unique([k \in DOMAIN from |-> df.rows[from[k]][BOOSTER]])
        IN  IF Len(boosters) > Len(Plotly) THEN Raised("IndexError")
            ELSE IF CLASS \notin df.columns THEN Raised("ValueError")
            ELSE [raised |-> "", type |-> "scatter",
                  title |-> ScatterTitle(entered_site),
                  points |-> [k \in DOMAIN filtered |->
                      LET r == df.rows[filtered[k]]
                      IN  [index |-> filtered[k],
                           x |-> r[PAYLOAD], y |-> r[CLASS], size |-> r[PAYLOAD],
                           booster |-> r[BOOSTER],
                           color |-> BoosterColor(boosters, r[BOOSTER])]],
                  yticks |-> <<[val |-> 0, text |-> "Failure"],
                               [val |-> 1, text |-> "Success"]>>]

----------------------------------------------------------------------------
(* Initial states.                                                         *)

InitState(files) ==
    /\ csv \in files
    /\ pc = "start"
    /\ error = ""
    /\ spacex_df = NoFrame
    /\ min_payload = 0
    /\ max_payload = 0
    /\ launch_sites = {}
    /\ site_dropdown = None
    /\ payload_slider = <<>>
    /\ slider_changed = FALSE
    /\ success_pie_chart = NoFigure
    /\ success_payload_scatter_chart = NoFigure
    /\ returned = NoCall

\* Any file: missing, lacking one column, or complete.
Init ==
    InitState({MissingFile}
              \cup {CsvFile(cols, t) : cols \in ColumnSets, t \in Tables(UIRecords)})

\* A complete file with any rows.
InitCall == InitState({CsvFile(Cols, t) : t \in Tables(Records)})

----------------------------------------------------------------------------
(* Actions.                                                                *)

\* The script runs: lines 10-15 load the data, lines 18-55 build the layout,
\* line 132 starts the server. An exception at module level ends the process.
Startup ==
    /\ pc = "start"
    /\ LET d == LoadData(csv)
       IN  IF d.raised # ""
           THEN /\ pc' = "failed"
                /\ error' = d.raised
                /\ spacex_df' = d.spacex_df
                /\ UNCHANGED <<min_payload, max_payload, launch_sites>>
           ELSE /\ pc' = "running"
                /\ error' = ""
                /\ spacex_df' = d.spacex_df
                /\ min_payload' = d.min_payload
                /\ max_payload' = d.max_payload
                /\ launch_sites' = d.launch_sites
    /\ UNCHANGED <<csv, site_dropdown, payload_slider, slider_changed,
                   success_pie_chart, success_payload_scatter_chart, returned>>

\* The browser loads (or reloads) the page: the controls take the layout's values
\* and Dash calls both callbacks with them.
PageLoad ==
    /\ pc \in {"running", "rendered"}
    /\ pc' = "rendered"
    /\ site_dropdown' = DropdownDefault
    /\ payload_slider' = SliderDefault(min_payload, max_payload)
    /\ slider_changed' = FALSE
    /\ success_pie_chart' = get_pie_chart(spacex_df, site_dropdown')
    /\ success_payload_scatter_chart' =
           get_scatter_chart(spacex_df, site_dropdown', payload_slider')
    /\ UNCHANGED <<csv, error, spacex_df, min_payload, max_payload, launch_sites,
                   returned>>

\* The user picks an option of the dropdown; both callbacks have it as Input.
SelectSite ==
    /\ pc = "rendered"
    /\ \E v \in OptionValues(launch_sites) :
          /\ v # site_dropdown
          /\ site_dropdown' = v
    /\ success_pie_chart' = get_pie_chart(spacex_df, site_dropdown')
    /\ success_payload_scatter_chart' =
           get_scatter_chart(spacex_df, site_dropdown', payload_slider)
    /\ UNCHANGED <<csv, pc, error, spacex_df, min_payload, max_payload, launch_sites,
                   payload_slider, slider_changed, returned>>

\* The user clears the dropdown (dcc.Dropdown is clearable unless clearable=False
\* is passed, and the layout does not pass it): its value becomes None.
ClearSite ==
    /\ pc = "rendered"
    /\ site_dropdown # None
    /\ site_dropdown' = None
    /\ success_pie_chart' = get_pie_chart(spacex_df, site_dropdown')
    /\ success_payload_scatter_chart' =
           get_scatter_chart(spacex_df, site_dropdown', payload_slider)
    /\ UNCHANGED <<csv, pc, error, spacex_df, min_payload, max_payload, launch_sites,
                   payload_slider, slider_changed, returned>>

\* The user drags the slider: both handles end on positions of the step grid,
\* the lower one first. Only the scatter callback has the slider as Input.
MoveSlider ==
    /\ pc = "rendered"
    /\ \E lo \in SliderPositions, hi \in SliderPositions :
          /\ lo <= hi
          /\ <<lo, hi>> # payload_slider
          /\ payload_slider' = <<lo, hi>>
    /\ slider_changed' = TRUE
    /\ success_payload_scatter_chart' =
           get_scatter_chart(spacex_df, site_dropdown, payload_slider')
    /\ UNCHANGED <<csv, pc, error, spacex_df, min_payload, max_payload, launch_sites,
                   site_dropdown, success_pie_chart, returned>>

\* The inputs a direct caller may pass.
SiteInputs == {"ALL", None, UnknownSite} \cup SiteNames
PayloadInputs == {<<lo, hi>> : lo \in PayloadValues \cup {5000}, hi \in PayloadValues}

\* get_pie_chart called with any value at all.
CallPieChart ==
    /\ pc = "running"
    /\ \E s \in SiteInputs :
          returned' = [fn |-> "get_pie_chart", args |-> <<s>>,
                       result |-> get_pie_chart(spacex_df, s)]
    /\ UNCHANGED <<csv, pc, error, spacex_df, min_payload, max_payload, launch_sites,
                   site_dropdown, payload_slider, slider_changed,
                   success_pie_chart, success_payload_scatter_chart>>

\* get_scatter_chart called with any site and any pair of numbers.
CallScatterChart ==
    /\ pc = "running"
    /\ \E s \in SiteInputs, r \in PayloadInputs :
          returned' = [fn |-> "get_scatter_chart", args |-> <<s, r>>,
                       result |-> get_scatter_chart(spacex_df, s, r)]
    /\ UNCHANGED <<csv, pc, error, spacex_df, min_payload, max_payload, launch_sites,
                   site_dropdown, payload_slider, slider_changed,
                   success_pie_chart, success_payload_scatter_chart>>

Next == Startup \/ PageLoad \/ SelectSite \/ ClearSite \/ MoveSlider
Spec == Init /\ [][Next]_vars

NextCall == Startup \/ CallPieChart \/ CallScatterChart
SpecCall == InitCall /\ [][NextCall]_vars

----------------------------------------------------------------------------
(* What the claims are stated about: the rows of the file itself, and the  *)
(* last direct call.                                                       *)

FileRows == DOMAIN csv.rows
FileSites == {csv.rows[i][SITE] : i \in FileRows}
RowsAt(s) == {i \in FileRows : csv.rows[i][SITE] = s}
RowsOfClass(S, c) == {i \in S : csv.rows[i][CLASS] = c}

PieCalled == returned.fn = "get_pie_chart"
ScatterCalled == returned.fn = "get_scatter_chart"
Result == returned.result
IsPie(fig) == fig.raised = "" /\ fig.type = "pie"
IsScatter(fig) == fig.raised = "" /\ fig.type = "scatter"

RECURSIVE SumSectors(_, _, _)
SumSectors(fig, labels, n) ==
    IF n = 0 THEN 0 ELSE SumSectors(fig, labels, n - 1) + SectorValue(fig, labels[n])

Occurrences(s, x) == Cardinality({i \in DOMAIN s : s[i] = x})

\* C1: get_pie_chart('ALL') returns a pie with one sector per launch site of the
\* dataset, the sector's value being the number of that site's records with
\* class == 1; the sector values add up to the number of success records.
C1_AllSitesPieCountsSuccesses ==
    (PieCalled /\ returned.args[1] = "ALL") =>
        /\ IsPie(Result)
        /\ {SectorLabels(Result)[k] : k \in DOMAIN SectorLabels(Result)} = FileSites
        /\ \A s \in FileSites :
              SectorValue(Result, s) = Cardinality(RowsOfClass(RowsAt(s), 1))
        /\ SumSectors(Result, SectorLabels(Result), Len(SectorLabels(Result)))
              = Cardinality(RowsOfClass(FileRows, 1))

\* Two sites, successes and failures both present, 'ALL' asked for.
C1_Witness ==
    /\ PieCalled /\ returned.args[1] = "ALL"
    /\ Cardinality(FileSites) = 2
    /\ RowsOfClass(FileRows, 0) # {}
    /\ RowsOfClass(FileRows, 1) # {}

\* C2: for a launch site s, get_pie_chart(s) has a 'Success' sector worth the
\* number of records at s with class == 1 and a 'Failure' sector worth the number
\* with class == 0; a label whose count is zero is absent; at most two sectors.
C2_SitePieCountsOutcomes ==
    (PieCalled /\ returned.args[1] \in SiteNames) =>
        /\ IsPie(Result)
        /\ Len(Result.labels) <= 2
        /\ \A k \in DOMAIN Result.labels : Result.labels[k] \in {"Success", "Failure"}
        /\ \A c \in {0, 1} :
              LET l == IF c = 1 THEN "Success" ELSE "Failure"
                  n == Cardinality(RowsOfClass(RowsAt(returned.args[1]), c))
              IN  IF n = 0 THEN Occurrences(Result.labels, l) = 0
                  ELSE /\ Occurrences(Result.labels, l) = 1
                       /\ SectorValue(Result, l) = n

\* A site with successes only, in a dataset that also has a failure elsewhere.
C2_Witness ==
    /\ PieCalled /\ returned.args[1] \in FileSites
    /\ RowsOfClass(RowsAt(returned.args[1]), 0) = {}
    /\ RowsOfClass(FileRows, 0) # {}
    /\ Result.labels = <<"Success">>

InRange(i, r) == r[1] <= csv.rows[i][PAYLOAD] /\ csv.rows[i][PAYLOAD] <= r[2]
Selected(s, r) ==
    {i \in FileRows : InRange(i, r) /\ (s # "ALL" => csv.rows[i][SITE] = s)}
PointRows(fig) == {fig.points[k].index : k \in DOMAIN fig.points}

\* C3: the points of get_scatter_chart(site, [low, high]) are exactly the records
\* with low <= payload <= high (both inclusive) and, unless site is 'ALL', with that
\* launch site; with [min_payload, max_payload] every record of the site is there.
C3_ScatterPointsAreTheRecordsInRange ==
    ScatterCalled =>
        LET s == returned.args[1]
            r == returned.args[2]
        IN  /\ IsScatter(Result)
            /\ PointRows(Result) = Selected(s, r)
            /\ Len(Result.points) = Cardinality(Selected(s, r))
            /\ \A k \in DOMAIN Result.points :
                  /\ Result.points[k].x = csv.rows[Result.points[k].index][PAYLOAD]
                  /\ Result.points[k].y = csv.rows[Result.points[k].index][CLASS]
            /\ r = <<min_payload, max_payload>> =>
                  PointRows(Result) = IF s = "ALL" THEN FileRows ELSE RowsAt(s)

\* A site and a range low < high: one record of the site lies on the upper bound
\* and is returned, another record of the site lies outside and is not.
C3_Witness ==
    /\ ScatterCalled
    /\ returned.args[1] \in FileSites
    /\ returned.args[2][1] < returned.args[2][2]
    /\ \E k \in DOMAIN Result.points : Result.points[k].x = returned.args[2][2]
    /\ RowsAt(returned.args[1]) \ PointRows(Result) # {}

FileBoosters == {csv.rows[i][BOOSTER] : i \in FileRows}
FirstRow(b) == CHOOSE i \in FileRows :
    /\ csv.rows[i][BOOSTER] = b
    /\ \A j \in FileRows : csv.rows[j][BOOSTER] = b => i <= j
\* 1 for the category that appears first in the file, 2 for the next new one, ...
Appearance(b) == 1 + Cardinality({c \in FileBoosters : FirstRow(c) < FirstRow(b)})

\* C4: the colour of every point is the palette entry at the first-appearance
\* position of its booster category in the whole, unfiltered dataset, whatever the
\* site and the range and whichever categories the filters leave.
C4_BoosterColourFromWholeDataset ==
    ScatterCalled =>
        /\ IsScatter(Result)
        /\ \A k \in DOMAIN Result.points :
              /\ Result.points[k].booster = csv.rows[Result.points[k].index][BOOSTER]
              /\ Result.points[k].color = Plotly[Appearance(Result.points[k].booster)]

\* Only the category that appears second in the file is left after filtering.
C4_Witness ==
    /\ ScatterCalled
    /\ Result.points # <<>>
    /\ \A k \in DOMAIN Result.points : Appearance(Result.points[k].booster) = 2

Unrecognized(s) == s \notin {"ALL"} \cup FileSites

\* C5 as claimed: get_pie_chart with a value that is neither 'ALL' nor a launch site
\* of the dataset fails with InvalidSelectionError.
C5_UnknownSiteRaises ==
    (PieCalled /\ Unrecognized(returned.args[1])) =>
        Result.raised = "InvalidSelectionError"

\* C5 as amended: such a call raises nothing and returns a pie chart without any
\* sector, titled 'Total Success Launches for Site <value>'.
C5_UnknownSiteGivesEmptyPie ==
    (PieCalled /\ Unrecognized(returned.args[1])) =>
        /\ IsPie(Result)
        /\ Result.labels = <<>>
        /\ Result.values = <<>>
        /\ Result.title = <<"Total Success Launches for Site ", Str(returned.args[1])>>

\* The value of a cleared dropdown passed to get_pie_chart.
C5_Witness ==
    /\ PieCalled
    /\ returned.args[1] = None
    /\ Result.title[2] = "None"

\* C6 as claimed: get_scatter_chart with low > high fails with InvalidRangeError.
C6_ReversedRangeRaises ==
    (ScatterCalled /\ returned.args[2][1] > returned.args[2][2]) =>
        Result.raised = "InvalidRangeError"

\* C6 as amended: such a call raises nothing and returns a scatter chart without
\* any point.
C6_ReversedRangeGivesEmptyScatter ==
    (ScatterCalled /\ returned.args[2][1] > returned.args[2][2]) =>
        /\ IsScatter(Result)
        /\ Result.points = <<>>

\* low > high for all sites, on a dataset with a record on each of the two bounds.
C6_Witness ==
    /\ ScatterCalled
    /\ returned.args[1] = "ALL"
    /\ returned.args[2][1] > returned.args[2][2]
    /\ \E i \in FileRows : csv.rows[i][PAYLOAD] = returned.args[2][1]
    /\ \E i \in FileRows : csv.rows[i][PAYLOAD] = returned.args[2][2]

\* C9: in every pie 'Success' has the one colour and 'Failure' the other, and in
\* the pie of a site the sectors are drawn in the order given with 'Success' before
\* 'Failure', whichever of the two are present and whichever site is selected.
C9_OutcomeColoursAndOrderFixed ==
    (PieCalled /\ IsPie(Result)) =>
        /\ \A k \in DOMAIN Result.labels :
              /\ Result.labels[k] = "Success" => Result.colors[k] = Plotly[1]
              /\ Result.labels[k] = "Failure" => Result.colors[k] = Plotly[2]
        /\ returned.args[1] # "ALL" =>
              /\ ~Result.sort
              /\ \A j, k \in DOMAIN Result.labels :
                    (Result.labels[j] = "Success" /\ Result.labels[k] = "Failure") => j < k

\* A site with failures only: 'Failure' is the first and only sector.
C9_Witness ==
    /\ PieCalled /\ returned.args[1] \in FileSites
    /\ Result.labels = <<"Failure">>
    /\ Result.colors = <<Plotly[2]>>

----------------------------------------------------------------------------
(* The claims about start-up and the controls, under Spec.                 *)

Malformed(file) == ~file.exists \/ ~(Cols \subseteq file.columns)
Serving == pc \in {"running", "rendered"}

\* C7 as claimed: with the file missing or any required column absent, start-up
\* fails; the process never serves and no callback runs on such a dataset.
C7_MalformedFileNeverServed ==
    Malformed(csv) =>
        /\ ~Serving
        /\ success_pie_chart = NoFigure
        /\ success_payload_scatter_chart = NoFigure

\* C7 as amended: with the file missing, or the payload mass or launch site column
\* absent, start-up fails with Python's FileNotFoundError or KeyError before the
\* layout is built and the server started, and no callback ever runs. A file that
\* lacks only the class or the booster column does not fail start-up: the page is
\* served, and the scatter callback raises each time it runs.
C7_OnlySiteAndPayloadCheckedAtStartup ==
    /\ (~csv.exists \/ ~({PAYLOAD, SITE} \subseteq csv.columns)) =>
          /\ ~Serving
          /\ success_pie_chart = NoFigure
          /\ success_payload_scatter_chart = NoFigure
          /\ pc = "failed" =>
                error = (IF csv.exists THEN "KeyError" ELSE "FileNotFoundError")
    /\ (csv.exists /\ {PAYLOAD, SITE} \subseteq csv.columns) =>
          /\ pc # "failed"
          /\ (pc = "rendered" /\ Malformed(csv)) =>
                success_payload_scatter_chart.raised \in {"KeyError", "ValueError"}

\* The file is there but has no launch site column: start-up has failed.
C7_Witness ==
    /\ csv.exists
    /\ SITE \notin csv.columns
    /\ pc = "failed"
    /\ error = "KeyError"

\* C8: at every callback invocation payloadRange[0] <= payloadRange[1], the range
\* lies within [0, 10000], and selectedSite is 'ALL' or a launch site of the dataset.
C8_SelectionAlwaysValid ==
    pc = "rendered" =>
        /\ payload_slider[1] <= payload_slider[2]
        /\ 0 <= payload_slider[1]
        /\ payload_slider[2] <= 10000
        /\ site_dropdown \in {"ALL"} \cup FileSites

OnStep(p) == 0 <= p /\ p <= 10000 /\ p % 1000 = 0

====
